---- MODULE Spec2Model ----
(***************************************************************************)
(* Model of FineTuning_v1.ipynb (BeepGPT fine-tuning data preparation).    *)
(*                                                                         *)
(* The notebook is a straight-line batch program:                         *)
(*   1. messages     : the rows of messages.parquet, re-keyed by           *)
(*                     (channel, thread_ts);                               *)
(*   2. history      : a timestream query: collect(max=20), shift_by(1s),  *)
(*                     two collect(window=Trailing(1s), max=100), union,   *)
(*                     record, filter(is_not_null);                        *)
(*   3. le           : LabelEncoder fitted on the exploded engaged_users,  *)
(*                     dumped to labels_.json;                             *)
(*   4. examples_df  : format_prompt / format_completion per row, written  *)
(*                     to examples.jsonl.                                  *)
(*                                                                         *)
(* The timestream operators are library calls; they are modelled by their  *)
(* documented meaning:                                                     *)
(*   - collect(max=n) yields, at every input row, the list of the last n   *)
(*     values of the row's key, the row's own value included;              *)
(*   - shift_by(d) moves every point d forward in time (the value is       *)
(*     unchanged), producing a discrete timestream; shifted points that    *)
(*     lie after the last input row are emitted as well;                   *)
(*   - collect(window=Trailing(d)) holds the values whose time is later    *)
(*     than (now - d); it is re-evaluated d after every input, so that the *)
(*     window empties when no input follows;                               *)
(*   - record() is defined at the union of the points of its fields, a     *)
(*     discrete field being null where it has no point;                    *)
(*   - rows of equal time are ordered by an engine-assigned subsort the    *)
(*     notebook does not control: whether a message row at exactly the     *)
(*     shifted time precedes the shifted row is a nondeterministic choice  *)
(*     of the run (parameter `tie` of the query).                          *)
(* Time is counted in ticks, TicksPerSecond ticks to the second, so that   *)
(* events strictly inside a one-second window exist.                       *)
(***************************************************************************)
EXTENDS Integers, Sequences, FiniteSets, TLC

\* ---------------------------------------------------------------- bounds
MaxEvents == 3          \* freely chosen rows of messages.parquet
MaxLong == 22           \* rows of the one long single-thread file
TicksPerSecond == 2     \* time resolution of the model

\* ------------------------------------------------------ program constants
K_max == 20             \* collect(max=20)
EngMax == 100           \* collect(window=..., max=100)
ShiftSeconds == 1       \* shift_by(timedelta(seconds=1))
TrailingSeconds == 1    \* Trailing(timedelta(seconds=1))

Delta == ShiftSeconds * TicksPerSecond
Window == TrailingSeconds * TicksPerSecond

\* ------------------------------------------------------------ input data
\* User ids in Python string order; NaN is what pandas' explode() puts in
\* place of an empty list.
UserIds == <<"A", "B", "C">>
NaN == "NaN"

NoThread == "null"

\* Raw rows of the export, without their time.
RawRecords ==
  { [channel |-> "ch1", thread_ts |-> NoThread, user |-> "A", text |-> "hi",
     reactions |-> <<>>],
    [channel |-> "ch1", thread_ts |-> NoThread, user |-> "B", text |-> "hey",
     reactions |-> << [name |-> "+1", users |-> <<"C">>] >>],
    [channel |-> "ch1", thread_ts |-> "th1", user |-> "C", text |-> "yo",
     reactions |-> << [name |-> "+1", users |-> <<"A", "C">>],
                      [name |-> "eyes", users |-> <<"A">>] >>],
    [channel |-> "ch2", thread_ts |-> NoThread, user |-> "C", text |-> "hi",
     reactions |-> << [name |-> "tada", users |-> <<"B">>] >>] }

BurstRecord ==
  [channel |-> "ch1", thread_ts |-> NoThread, user |-> "A", text |-> "hi",
   reactions |-> <<>>]

\* Gaps between consecutive rows: a tie, inside the window, exactly the
\* shift, beyond the shift.
Gaps == {0, 1, Delta, Delta + 1}

Message(r, t) ==
  [channel |-> r.channel, thread_ts |-> r.thread_ts, ts_parsed |-> t, ts |-> t,
   user |-> r.user, text |-> r.text, reactions |-> r.reactions]

\* --------------------------------------------------------------- helpers
Range(s) == {s[i] : i \in 1..Len(s)}

LastN(s, n) == IF Len(s) <= n THEN s ELSE SubSeq(s, Len(s) - n + 1, Len(s))

RECURSIVE Flatten(_)
Flatten(ss) == IF ss = <<>> THEN <<>> ELSE Head(ss) \o Flatten(Tail(ss))

RECURSIVE Dedup(_)
\* keeps the first occurrence of every value
Dedup(s) ==
  IF s = <<>> THEN <<>>
  ELSE LET init == Dedup(SubSeq(s, 1, Len(s) - 1))
           x == s[Len(s)]
       IN IF x \in Range(init) THEN init ELSE Append(init, x)

RECURSIVE Join(_, _)
\* Python's sep.join(parts)
Join(sep, parts) ==
  IF parts = <<>> THEN ""
  ELSE IF Len(parts) = 1 THEN parts[1]
  ELSE parts[1] \o sep \o Join(sep, Tail(parts))

\* ------------------------------------------------------------- the query
\* a re-keying that forgets the thread
with_key_channel_only(m) == [channel |-> m.channel, thread |-> NoThread]

\* messages.with_key(record{channel, thread})
with_key(m) == [channel |-> m.channel, thread |-> m.thread_ts]

\* .select("user", "ts", "text", "reactions")
Select(m) == [user |-> m.user, ts |-> m.ts, text |-> m.text, reactions |-> m.reactions]

\* a buffer that does not stop at row i
KeyRows_all(msgs, i) ==
  SelectSeq(msgs, LAMBDA m : with_key(m) = with_key(msgs[i]))

\* the rows of the key of row i, up to and including row i
KeyRowsUpTo(msgs, i) ==
  SelectSeq(SubSeq(msgs, 1, i), LAMBDA m : with_key(m) = with_key(msgs[i]))

\* a collect with no max
conversations_unbounded(msgs, i) ==
  LET rows == KeyRowsUpTo(msgs, i)
  IN [k \in 1..Len(rows) |-> Select(rows[k])]

\* a collect that leaves the row's own value out
conversations_before(msgs, i) ==
  LET rows == KeyRowsUpTo(msgs, i)
  IN LastN([k \in 1..Len(rows) - 1 |-> Select(rows[k])], K_max)

\* conversations at row i: .select(...).collect(max=20)
conversations(msgs, i) ==
  LET rows == KeyRowsUpTo(msgs, i)
  IN LastN([k \in 1..Len(rows) |-> Select(rows[k])], K_max)

\* time of the point conversations.shift_by(1s) makes of row i
ShiftTime(msgs, i) == msgs[i].ts_parsed + Delta

\* a trailing window closed at its older end
TrailingCollect_inclusive(msgs, key, now, n) ==
  LastN(SelectSeq(SubSeq(msgs, 1, n),
                  LAMBDA m : with_key(m) = key /\ m.ts_parsed >= now - Window),
        EngMax)

\* messages.collect(window=Trailing(1s), max=100) for key `key`, evaluated at
\* time `now` when the first n rows of the file have been processed
TrailingCollect(msgs, key, now, n) ==
  LastN(SelectSeq(SubSeq(msgs, 1, n),
                  LAMBDA m : with_key(m) = key /\ m.ts_parsed > now - Window),
        EngMax)

\* .col("reactions").flatten().col("users").flatten()
reaction_users(coll) ==
  LET reacts == Flatten([k \in 1..Len(coll) |-> coll[k].reactions])
  IN Flatten([k \in 1..Len(reacts) |-> reacts[k].users])

\* .col("user")
participating_users(coll) == [k \in 1..Len(coll) |-> coll[k].user]

\* a.union(b)
Union(a, b) == Dedup(a \o b)

engaged_users(coll) == Union(reaction_users(coll), participating_users(coll))

\* rows processed when the shifted point of row i is evaluated
ProcessedAt(msgs, s, tie) ==
  Cardinality({j \in 1..Len(msgs) :
                 msgs[j].ts_parsed < s \/ (tie /\ msgs[j].ts_parsed = s)})

Null == [null |-> TRUE]
Value(v) == [null |-> FALSE, value |-> v]
is_not_null(v) == ~v.null

\* the record at the point of message row j: shifted_conversations is null
MessagePoint(msgs, j) ==
  [_time |-> msgs[j].ts_parsed, _key |-> with_key(msgs[j]),
   conversation |-> Null,
   engaged_users |->
     engaged_users(TrailingCollect(msgs, with_key(msgs[j]), msgs[j].ts_parsed, j))]

\* the record at the shifted point of message row i
ShiftedPoint(msgs, i, tie) ==
  LET s == ShiftTime(msgs, i)
  IN [_time |-> s, _key |-> with_key(msgs[i]),
      conversation |-> Value(conversations(msgs, i)),
      engaged_users |->
        engaged_users(TrailingCollect(msgs, with_key(msgs[i]), s,
                                      ProcessedAt(msgs, s, tie)))]

Indices(msgs) == [i \in 1..Len(msgs) |-> i]

PointsAt(msgs, tie, T) ==
  LET mi == SelectSeq(Indices(msgs), LAMBDA i : msgs[i].ts_parsed = T)
      si == SelectSeq(Indices(msgs), LAMBDA i : ShiftTime(msgs, i) = T)
      mp == [k \in 1..Len(mi) |-> MessagePoint(msgs, mi[k])]
      sp == [k \in 1..Len(si) |-> ShiftedPoint(msgs, si[k], tie)]
  IN IF tie THEN mp \o sp ELSE sp \o mp

RECURSIVE Timeline(_, _, _, _)
Timeline(msgs, tie, T, Tend) ==
  IF T > Tend THEN <<>>
  ELSE PointsAt(msgs, tie, T) \o Timeline(msgs, tie, T + 1, Tend)

\* kt.record({conversation, engaged_users}): all points, in time order
RecordPoints(msgs, tie) ==
  IF msgs = <<>> THEN <<>>
  ELSE Timeline(msgs, tie, msgs[1].ts_parsed, msgs[Len(msgs)].ts_parsed + Delta)

\* history = record(...).filter(shifted_conversations.is_not_null());
\* history.run().to_pandas()
history_run_of(msgs, tie) ==
  LET kept == SelectSeq(RecordPoints(msgs, tie), LAMBDA p : is_not_null(p.conversation))
  IN [k \in 1..Len(kept) |->
        [_time |-> kept[k]._time, _key |-> kept[k]._key,
         conversation |-> kept[k].conversation.value,
         engaged_users |-> kept[k].engaged_users]]

\* .drop(["_time", "_subsort", "_key_hash", "_key"], axis=1)
drop_columns(rows) ==
  [k \in 1..Len(rows) |->
     [conversation |-> rows[k].conversation, engaged_users |-> rows[k].engaged_users]]

\* ------------------------------------------------------------ the encoder
\* an explode that reads the first row only
explode_first_row(df) ==
  IF df = <<>> THEN <<>>
  ELSE IF df[1].engaged_users = <<>> THEN <<NaN>> ELSE df[1].engaged_users

\* history_df.engaged_users.explode(): an empty list becomes one NaN
explode(df) ==
  Flatten([k \in 1..Len(df) |->
             IF df[k].engaged_users = <<>> THEN <<NaN>> ELSE df[k].engaged_users])

\* le.fit(y): classes_ are the distinct values in sorted order, a missing
\* value last
fit(y) == SelectSeq(UserIds \o <<NaN>>, LAMBDA u : u \in Range(y))

\* le.transform(y) raises ValueError on a label that is not in classes_
unseen_labels(classes, y) == \E k \in 1..Len(y) : y[k] \notin Range(classes)

\* 1-based positions
transform_one_based(classes, y) ==
  [k \in 1..Len(y) |-> CHOOSE i \in 1..Len(classes) : classes[i] = y[k]]

\* le.transform(y): the 0-based position of every label in classes_
transform(classes, y) ==
  [k \in 1..Len(y) |-> (CHOOSE i \in 1..Len(classes) : classes[i] = y[k]) - 1]

\* .astype(str)
astype_str(ints) == [k \in 1..Len(ints) |-> ToString(ints[k])]

\* the prompt with one space after the start marker
format_prompt_single_space(conversation) ==
  "start ->"
  \o Join("\n\n", [k \in 1..Len(conversation) |->
                     " " \o conversation[k].user \o " --> " \o conversation[k].text \o " "])
  \o "\n\n###\n\n"

format_prompt(conversation) ==
  "start -> "
  \o Join("\n\n", [k \in 1..Len(conversation) |->
                     " " \o conversation[k].user \o " --> " \o conversation[k].text \o " "])
  \o "\n\n###\n\n"

\* a completion without the sentinel
format_completion_no_sentinel(classes, engaged) ==
  " " \o Join(" ", astype_str(transform(classes, engaged))) \o " end"

format_completion(classes, engaged) ==
  " "
  \o (IF Len(engaged) > 0 THEN Join(" ", astype_str(transform(classes, engaged)))
      ELSE "nil")
  \o " end"

\* ------------------------------------------------------------- the program
VARIABLES messages, pc, history_run, history_df, le_classes, labels_json,
          examples_df, examples_jsonl, error

vars == <<messages, pc, history_run, history_df, le_classes, labels_json,
          examples_df, examples_jsonl, error>>

Init ==
  /\ messages = <<>>
  /\ pc = "load"
  /\ history_run = <<>>
  /\ history_df = <<>>
  /\ le_classes = <<>>
  /\ labels_json = <<>>
  /\ examples_df = <<>>
  /\ examples_jsonl = <<>>
  /\ error = "none"

NextTime(gap) == IF messages = <<>> THEN 0 ELSE messages[Len(messages)].ts_parsed + gap

\* the file is one long burst in the main channel, one message per tick
IsBurst(msgs) ==
  \A i \in 1..Len(msgs) : msgs[i] = Message(BurstRecord, i - 1)

\* one more row of messages.parquet (rows are in chronological order)
LoadMessage ==
  /\ pc = "load"
  /\ Len(messages) < MaxEvents
  /\ \E r \in RawRecords, gap \in Gaps :
       messages' = Append(messages, Message(r, NextTime(gap)))
  /\ UNCHANGED <<pc, history_run, history_df, le_classes, labels_json,
                 examples_df, examples_jsonl, error>>

\* one more row of a file that is a single long burst
LoadBurst ==
  /\ pc = "load"
  /\ Len(messages) >= MaxEvents
  /\ Len(messages) < MaxLong
  /\ IsBurst(messages)
  /\ messages' = Append(messages, Message(BurstRecord, Len(messages)))
  /\ UNCHANGED <<pc, history_run, history_df, le_classes, labels_json,
                 examples_df, examples_jsonl, error>>

\* history_df = history.run().to_pandas().drop([...], axis=1)
Run ==
  /\ pc = "load"
  /\ \E tie \in BOOLEAN :
       /\ history_run' = history_run_of(messages, tie)
       /\ history_df' = drop_columns(history_run')
  /\ pc' = "examples"
  /\ UNCHANGED <<messages, le_classes, labels_json, examples_df, examples_jsonl, error>>

\* le.fit(history_df.engaged_users.explode()); json.dump(le.classes_.tolist())
FitLabels ==
  /\ pc = "examples"
  /\ le_classes' = fit(explode(history_df))
  /\ labels_json' = le_classes'
  /\ pc' = "fitted"
  /\ UNCHANGED <<messages, history_run, history_df, examples_df, examples_jsonl, error>>

\* examples_df = DataFrame({prompt: ...apply(format_prompt),
\*                          completion: ...apply(format_completion)})
FormatExamples ==
  /\ pc = "fitted"
  /\ IF \E k \in 1..Len(history_df) :
          unseen_labels(le_classes, history_df[k].engaged_users)
     THEN /\ error' = "ValueError"
          /\ pc' = "failed"
          /\ UNCHANGED examples_df
     ELSE /\ examples_df' =
               [k \in 1..Len(history_df) |->
                  [prompt |-> format_prompt(history_df[k].conversation),
                   completion |-> format_completion(le_classes,
                                                    history_df[k].engaged_users)]]
          /\ pc' = "formatted"
          /\ UNCHANGED error
  /\ UNCHANGED <<messages, history_run, history_df, le_classes, labels_json,
                 examples_jsonl>>

\* examples_df.to_json("examples.jsonl", orient='records', lines=True)
WriteExamples ==
  /\ pc = "formatted"
  /\ examples_jsonl' = examples_df
  /\ pc' = "written"
  /\ UNCHANGED <<messages, history_run, history_df, le_classes, labels_json,
                 examples_df, error>>

Next == LoadMessage \/ LoadBurst \/ Run \/ FitLabels \/ FormatExamples \/ WriteExamples

Spec == Init /\ [][Next]_vars

\* ================================================================ claims
\* Row j of history_run is the example made of messages[j]: every message
\* makes one shifted point, and the points come out in time order, which is
\* the order of the file (C9_SnapshotOfSourceEvent checks it).

SameEntity(m, e) == m.channel = e.channel /\ m.thread_ts = e.thread_ts

Min(a, b) == IF a <= b THEN a ELSE b

\* the k-th of the last `len` members of the index set S
NthOfLast(S, len, k) == CHOOSE i \in S : Cardinality({h \in S : h > i}) = len - k

\* authors and reactors of the messages with index in S
UsersOf(S) ==
  {messages[i].user : i \in S}
  \cup UNION {Range(messages[i].reactions[r].users) :
                <<i, r>> \in {<<i, r>> \in S \X (1..4) : r <= Len(messages[i].reactions)}}

NoDuplicates(s) == \A a, b \in 1..Len(s) : s[a] = s[b] => a = b

Emitted == pc # "load"
Formatted == pc \in {"formatted", "written"}

\* C1: every event of an emitted snapshot is an event of the entity key
\* (channel + thread) of the event the example was made of, and is no event
\* of another entity key.
C1_SnapshotsStayInEntity ==
  Emitted =>
    \A j \in 1..Len(history_run) :
      \A k \in 1..Len(history_run[j].conversation) :
        LET x == history_run[j].conversation[k]
        IN /\ \E i \in 1..Len(messages) :
                SameEntity(messages[i], messages[j]) /\ Select(messages[i]) = x
           /\ \A i \in 1..Len(messages) :
                ~SameEntity(messages[i], messages[j]) => Select(messages[i]) # x

\* C1 witness: a snapshot of two or more events whose entity's events are
\* interleaved with an event of another entity.
C1_Witness ==
  /\ Emitted
  /\ \E j \in 1..Len(history_run) :
       /\ Len(history_run[j].conversation) >= 2
       /\ \E h, i \in 1..j :
            /\ h < i
            /\ SameEntity(messages[h], messages[j])
            /\ ~SameEntity(messages[i], messages[j])

\* C2: every emitted snapshot has at least 1 and at most K_max events,
\* however many events its entity has.
C2_SnapshotLength ==
  \A j \in 1..Len(history_df) :
    /\ Len(history_df[j].conversation) >= 1
    /\ Len(history_df[j].conversation) <= K_max

\* C2 witness: the example of the 21st (or a later) event of one entity,
\* whose snapshot is cut to K_max events.
C2_Witness ==
  /\ Emitted
  /\ \E j \in 1..Len(history_df) :
       /\ Len(history_df[j].conversation) = K_max
       /\ Cardinality({i \in 1..j : SameEntity(messages[i], messages[j])}) > K_max

SingleEvent(i) ==
  \A h \in 1..Len(messages) : SameEntity(messages[h], messages[i]) => h = i

\* C3 as stated: an entity stream of a single event produces no example.
C3_SingleEventNoExample ==
  Emitted =>
    \A i \in 1..Len(messages) :
      SingleEvent(i) =>
        ~\E j \in 1..Len(history_run) :
            /\ history_run[j]._key.channel = messages[i].channel
            /\ history_run[j]._key.thread = messages[i].thread_ts

\* C3 amended: an entity stream of a single event produces exactly one
\* example, at the event's time + Delta: its snapshot is that one event, its
\* engagement set is empty (completion " nil end"), and nothing fails.
C3_SingleEventOneExample ==
  Emitted =>
    \A i \in 1..Len(messages) :
      SingleEvent(i) =>
        LET rows == {j \in 1..Len(history_run) :
                       /\ history_run[j]._key.channel = messages[i].channel
                       /\ history_run[j]._key.thread = messages[i].thread_ts}
        IN /\ Cardinality(rows) = 1
           /\ error = "none"
           /\ \A j \in rows :
                /\ history_run[j]._time = messages[i].ts_parsed + Delta
                /\ history_df[j].conversation = <<Select(messages[i])>>
                /\ history_df[j].engaged_users = <<>>
                /\ Formatted => examples_df[j].completion = " nil end"

\* C3 witness: a written run whose file holds a single-event entity and
\* events of another entity.
C3_Witness ==
  /\ pc = "written"
  /\ \E i, h \in 1..Len(messages) :
       SingleEvent(i) /\ ~SameEntity(messages[h], messages[i])

IsAHi(conv) == Len(conv) = 1 /\ conv[1].user = "A" /\ conv[1].text = "hi"

\* C4 as stated: the one-event snapshot [A, "hi"] gives the prompt
\* "start -> A --> hi \n\n###\n\n", one space after the start marker.
C4_PromptOneSpace ==
  Formatted =>
    \A j \in 1..Len(examples_df) :
      IsAHi(history_df[j].conversation) =>
        examples_df[j].prompt = "start -> A --> hi \n\n###\n\n"

Piece(e) == " " \o e.user \o " --> " \o e.text \o " "

RECURSIVE PromptBody(_)
PromptBody(conv) ==
  IF Len(conv) = 1 THEN Piece(conv[1])
  ELSE PromptBody(SubSeq(conv, 1, Len(conv) - 1)) \o "\n\n" \o Piece(conv[Len(conv)])

\* C4 amended: the prompt is "start -> ", then every snapshot event as
\* " <author> --> <text> " (a space on either side) in snapshot order joined
\* by "\n\n", then "\n\n###\n\n"; the one-event snapshot [A, "hi"] gives
\* "start ->  A --> hi \n\n###\n\n", two spaces after the start marker.
C4_PromptTwoSpaces ==
  Formatted =>
    \A j \in 1..Len(examples_df) :
      LET conv == history_df[j].conversation
          prompt == examples_df[j].prompt
      IN /\ prompt = "start -> " \o PromptBody(conv) \o "\n\n###\n\n"
         /\ IsAHi(conv) => prompt = "start ->  A --> hi \n\n###\n\n"
         /\ (Len(conv) = 2 /\ IsAHi(<<conv[1]>>)
               /\ conv[2].user = "B" /\ conv[2].text = "hey")
            => prompt = "start ->  A --> hi \n\n B --> hey \n\n###\n\n"

\* C4 witness: formatted examples with the one-event snapshot [A, "hi"] and
\* with a snapshot of two events.
C4_Witness ==
  /\ Formatted
  /\ \E j, h \in 1..Len(examples_df) :
       IsAHi(history_df[j].conversation) /\ Len(history_df[h].conversation) = 2

Position(u) == CHOOSE n \in 1..Len(UserIds) : UserIds[n] = u

\* the vocabulary index of user u: the number of users of the vocabulary
\* that sort before u
VocabIndex(u) ==
  Cardinality({c \in Range(le_classes) \ {NaN} : Position(c) < Position(u)})

\* the indices of the users of `engaged`, ascending
AscendingIndices(engaged) ==
  SelectSeq([n \in 1..Len(UserIds) |-> n - 1],
            LAMBDA n : \E u \in Range(engaged) : VocabIndex(u) = n)

\* C5 as stated: an empty engagement set is rendered as "nil", a non-empty one
\* as its users' vocabulary indices in ascending order joined by single
\* spaces, followed by "end".
C5_CompletionAscending ==
  Formatted =>
    \A j \in 1..Len(examples_df) :
      LET engaged == history_df[j].engaged_users
      IN examples_df[j].completion =
           IF engaged = <<>> THEN " nil end"
           ELSE " " \o Join(" ", astype_str(AscendingIndices(engaged))) \o " end"

\* C5 amended: an empty engagement set is rendered as " nil end"; a non-empty
\* one as " ", its users' vocabulary indices in the order of the engaged_users
\* list (each user once, not sorted) joined by single spaces, then " end".
C5_CompletionListOrder ==
  Formatted =>
    \A j \in 1..Len(examples_df) :
      LET engaged == history_df[j].engaged_users
      IN /\ NoDuplicates(engaged)
         /\ examples_df[j].completion =
              IF engaged = <<>> THEN " nil end"
              ELSE " " \o Join(" ", [k \in 1..Len(engaged) |->
                                       ToString(VocabIndex(engaged[k]))]) \o " end"

\* C5 witness: formatted examples with an empty engagement set and with
\* one whose indices are not ascending.
C5_Witness ==
  /\ Formatted
  /\ \E j, h \in 1..Len(examples_df) :
       /\ history_df[j].engaged_users = <<>>
       /\ Len(history_df[h].engaged_users) >= 2
       /\ VocabIndex(history_df[h].engaged_users[1])
            > VocabIndex(history_df[h].engaged_users[2])

\* the index lists a completion can hold
IndexLists == UNION {[1..n -> 0..Len(UserIds)] : n \in 0..Len(UserIds)}

\* the text of a completion that holds the index list idx
CompletionText(idx) ==
  " " \o (IF idx = <<>> THEN "nil" ELSE Join(" ", astype_str(idx))) \o " end"

\* completion, read back through the vocabulary `labels`, names the users S
DecodesTo(completion, labels, S) ==
  \E idx \in IndexLists :
    /\ CompletionText(idx) = completion
    /\ \A k \in 1..Len(idx) : idx[k] + 1 <= Len(labels)
    /\ {labels[idx[k] + 1] : k \in 1..Len(idx)} = S

\* C6: reading the indices of a written completion back through labels_.json
\* (index -> user by position) gives the example's engagement set, as a set;
\* the vocabulary gives distinct users distinct indices.
C6_RoundTrip ==
  pc = "written" =>
    /\ NoDuplicates(labels_json)
    /\ \A j \in 1..Len(examples_jsonl) :
         DecodesTo(examples_jsonl[j].completion, labels_json,
                   Range(history_df[j].engaged_users))

\* C6 witness: a written example that engages three users, with a
\* vocabulary of three users.
C6_Witness ==
  /\ pc = "written"
  /\ \E j \in 1..Len(examples_jsonl) : Len(history_df[j].engaged_users) = 3
  /\ Cardinality(Range(labels_json) \ {NaN}) = 3

\* C7: encoding never meets a user that is not in the vocabulary: no run
\* fails with the unseen-label error, and once the vocabulary is fitted every
\* user of every engagement set is in it, and it does not change afterwards.
C7_NoUnknownUser ==
  /\ error = "none"
  /\ pc # "failed"
  /\ pc \in {"fitted", "formatted", "written"} =>
       /\ \A j \in 1..Len(history_df) :
            Range(history_df[j].engaged_users) \subseteq Range(le_classes)
       /\ labels_json = le_classes
  /\ Formatted => Len(examples_df) = Len(history_df)

\* C7 witness: a written run with examples after the first that engage
\* users the first example does not.
C7_Witness ==
  /\ pc = "written"
  /\ Len(history_df) >= 2
  /\ \E j \in 2..Len(history_df) :
       ~(Range(history_df[j].engaged_users) \subseteq Range(history_df[1].engaged_users))

\* C9 as stated: the snapshot of the example made of event E is the last
\* min(K_max, n) of the n events of E's entity whose timestamp is
\* <= E.timestamp - Delta (so E itself is never in it).
C9_SnapshotBeforeShift ==
  Emitted =>
    \A j \in 1..Len(history_run) :
      LET E == messages[j]
          conv == history_run[j].conversation
          elig == {i \in 1..Len(messages) :
                     /\ SameEntity(messages[i], E)
                     /\ messages[i].ts_parsed <= E.ts_parsed - Delta}
      IN /\ Len(conv) = Min(K_max, Cardinality(elig))
         /\ \A k \in 1..Len(conv) :
              conv[k] = Select(messages[NthOfLast(elig, Len(conv), k)])

\* C9 amended: every event E makes exactly one example, at time
\* E.timestamp + Delta; its snapshot is the last min(K_max, n) of the n events
\* of E's entity up to and including E in arrival order, in chronologically
\* non-decreasing order (equal timestamps in arrival order); E is its last
\* event, every snapshot event has a timestamp <= the example's time - Delta,
\* and no event that arrived after E is in it.
C9_SnapshotOfSourceEvent ==
  Emitted =>
    /\ Len(history_run) = Len(messages)
    /\ \A j \in 1..Len(history_run) :
         LET E == messages[j]
             conv == history_run[j].conversation
             buf == {i \in 1..j : SameEntity(messages[i], E)}
         IN /\ history_run[j]._time = E.ts_parsed + Delta
            /\ history_run[j]._key.channel = E.channel
            /\ history_run[j]._key.thread = E.thread_ts
            /\ Len(conv) = Min(K_max, Cardinality(buf))
            /\ \A k \in 1..Len(conv) :
                 /\ conv[k] = Select(messages[NthOfLast(buf, Len(conv), k)])
                 /\ conv[k].ts <= history_run[j]._time - Delta
                 /\ k < Len(conv) => conv[k].ts <= conv[k + 1].ts
            /\ conv[Len(conv)] = Select(E)

\* C9 witness: the example of an event that has an earlier event of its
\* entity and is followed by an event of its entity with the same timestamp.
C9_Witness ==
  /\ Emitted
  /\ \E j \in 1..Len(history_run) :
       /\ Len(history_run[j].conversation) >= 2
       /\ \E i \in (j + 1)..Len(messages) :
            /\ SameEntity(messages[i], messages[j])
            /\ messages[i].ts_parsed = messages[j].ts_parsed

\* the events of E's entity with a timestamp in (lo, hi), hi included if closed
InWindow(E, lo, hi, closed) ==
  {i \in 1..Len(messages) :
     /\ SameEntity(messages[i], E)
     /\ lo < messages[i].ts_parsed
     /\ \/ messages[i].ts_parsed < hi
        \/ closed /\ messages[i].ts_parsed = hi}

\* the last EngMax of the index set S
Capped(S) == {i \in S : Cardinality({h \in S : h > i}) < EngMax}

\* C10 as stated: the engagement set of the example made of event E is the
\* authors and reactors of the events of E's entity with a timestamp in
\* (E.timestamp - W, E.timestamp], E itself counted.
C10_EngagementEndsAtEvent ==
  Emitted =>
    \A j \in 1..Len(history_run) :
      LET E == messages[j]
      IN Range(history_run[j].engaged_users)
           = UsersOf(InWindow(E, E.ts_parsed - Window, E.ts_parsed, TRUE))

\* C10 amended: the engagement set of the example made of event E, emitted at
\* s = E.timestamp + Delta, is the authors and reactors of the (at most 100
\* latest) events of E's entity with a timestamp in the trailing window of
\* length W that ends at s: s - W < t < s, the events at exactly s counted or
\* not as the engine orders the rows of time s. With Delta = W these are
\* events later than E, so E itself and the events that share its timestamp
\* are not counted. Duplicates are collapsed; no user of an event outside the
\* window or of another entity is in it.
C10_EngagementEndsAtShift ==
  Emitted =>
    \A j \in 1..Len(history_run) :
      LET E == messages[j]
          s == E.ts_parsed + Delta
          got == history_run[j].engaged_users
      IN /\ NoDuplicates(got)
         /\ \/ Range(got) = UsersOf(Capped(InWindow(E, s - Window, s, FALSE)))
            \/ Range(got) = UsersOf(Capped(InWindow(E, s - Window, s, TRUE)))
         /\ Delta = Window =>
              Range(got) \subseteq
                UsersOf({i \in 1..Len(messages) :
                           /\ SameEntity(messages[i], E)
                           /\ messages[i].ts_parsed > E.ts_parsed})

\* C10 witness: the example of an event that is followed, in its entity, by an
\* event inside the window and by one after it, and engages somebody.
C10_Witness ==
  /\ Emitted
  /\ \E j \in 1..Len(history_run) :
       /\ history_run[j].engaged_users # <<>>
       /\ \E i, h \in (j + 1)..Len(messages) :
            /\ SameEntity(messages[i], messages[j])
            /\ SameEntity(messages[h], messages[j])
            /\ messages[i].ts_parsed < messages[j].ts_parsed + Delta
            /\ messages[i].ts_parsed > messages[j].ts_parsed
            /\ messages[h].ts_parsed > messages[j].ts_parsed + Delta
====
